---- MODULE Spec2Model ----
(***************************************************************************)
(* A model of elsm: an MVCC key-value store with an oracle, a write-ahead  *)
(* log, sharded mutable memtables and a deque of frozen index batches.     *)
(*                                                                         *)
(* Option<X> is modelled as a sequence of length at most one: None is <<>> *)
(* and Some(x) is <<x>>.  A stored value is Option<V>: None is a tombstone.*)
(* Keys, values and timestamps are small naturals.  Every WAL record has   *)
(* the same encoded size, RecordSize, and max_wal_size counts bytes.       *)
(***************************************************************************)
EXTENDS Integers, Sequences, FiniteSets, TLC

\* ---------------------------------------------------------------- bounds
NumKeys == 3
NumShards == 2
NumTxns == 3
NumPair == 2
MaxTs == 3
MaxDirectTs == 1
MaxWalSize == 1
MaxWrites == 3
MaxReopen == 1
MaxLogLen == 4
MaxFiles == 16
MaxIoErrors == 2
MaxGens == 2
MaxItems == 2
MaxPending == 2
MaxByte == 4
MaxFrame == 5

RecordSize == 1

Keys == 1..NumKeys
\* The timestamps a direct write is stamped with.
DirectTimestamps == 0..MaxDirectTs
\* The one key the transactions of SpecThree contend on.
HotKey == 1
Shards == 1..NumShards
Txns == 1..NumTxns
Timestamps == 0..MaxTs

\* ---------------------------------------------------------------- options
None == <<>>
Some(x) == <<x>>
IsSome(o) == Len(o) = 1
Unwrap(o) == o[1]

\* The value a transaction writes: opaque to the engine, distinct per writer.
ValueOf(t) == t
DirectValues == {None, Some(1)}

\* ---------------------------------------------------------------- records
Full == 0
First == 1
Middle == 2
Last == 3

Record(rt, k, ts, v) == [record_type |-> rt, key |-> k, ts |-> ts, value |-> v]

\* ---------------------------------------------------------------- memtable
\* InternalKey::cmp: ascending on key, descending on ts within one key.
IKLessAscTs(a, b) == a.key < b.key \/ (a.key = b.key /\ a.ts < b.ts)
IKLess(a, b) == a.key < b.key \/ (a.key = b.key /\ a.ts > b.ts)

IKLessEq(a, b) == IKLess(a, b) \/ (a.key = b.key /\ a.ts = b.ts)

\* The least element of a non-empty set of entries in InternalKey order.
IKMin(S) == CHOOSE e \in S : \A o \in S : IKLessEq(e, o)

\* MemTable::default
EmptyMemTable == {}

\* MemTable::insert: an unconditional upsert on (key, ts).
MemInsert(m, k, ts, v) ==
    {e \in m : ~(e.key = k /\ e.ts = ts)} \cup {[key |-> k, ts |-> ts, value |-> v]}

\* MemTable::get, up to the value: the first entry at or after (key, ts) in
\* InternalKey order, kept only when its key is the key asked for.
MemFindAnyKey(m, k, ts) ==
    LET from == {e \in m : IKLessEq([key |-> k, ts |-> ts], e)}
    IN  IF from = {} THEN None ELSE Some(IKMin(from))
MemFind(m, k, ts) ==
    LET from == {e \in m : IKLessEq([key |-> k, ts |-> ts], e)}
    IN  IF from = {} THEN None
        ELSE IF IKMin(from).key = k THEN Some(IKMin(from)) ELSE None

\* MemTable::get: Option<Option<V>>; Some(None) is a tombstone hit.
MemGet(m, k, ts) ==
    IF IsSome(MemFind(m, k, ts)) THEN Some(Unwrap(MemFind(m, k, ts)).value) ELSE None

\* The entries of a memtable as the BTreeMap iterates them.
RECURSIVE MemSeq(_)
MemSeq(m) ==
    IF m = {} THEN <<>> ELSE <<IKMin(m)>> \o MemSeq(m \ {IKMin(m)})

\* ---------------------------------------------------------------- bounds of a scan
\* lower and upper are Option<K>; both are inclusive, None is open-ended.
InBounds(k, lower, upper) ==
    /\ (IsSome(lower) => Unwrap(lower) <= k)
    /\ (IsSome(upper) => k <= Unwrap(upper))

RECURSIVE KeySeq(_)
KeySeq(S) ==
    IF S = {} THEN <<>>
    ELSE LET k == CHOOSE x \in S : \A y \in S : x <= y
         IN  <<k>> \o KeySeq(S \ {k})

\* MemTable::range: one (key, value) pair per distinct key in the bounds that has
\* a version at or before ts, ascending, the newest such version.
MemRange(m, lower, upper, ts) ==
    LET ks == KeySeq({k \in Keys : InBounds(k, lower, upper) /\ IsSome(MemFind(m, k, ts))})
    IN  [i \in 1..Len(ks) |-> [key |-> ks[i], ts |-> Unwrap(MemFind(m, ks[i], ts)).ts,
                               value |-> Unwrap(MemFind(m, ks[i], ts)).value]]

\* ---------------------------------------------------------------- frozen index batch
\* Db::freeze: the rows in memtable order, and the index InternalKey -> row offset.
FreezeIndexWithoutTs(mem_table) ==
    LET rows == MemSeq(mem_table)
    IN  [keys   |-> [i \in 1..Len(rows) |-> rows[i].key],
         values |-> [i \in 1..Len(rows) |-> rows[i].value],
         index  |-> {[key |-> rows[i].key, ts |-> 0, offset |-> i - 1] :
                        i \in 1..Len(rows)}]
Freeze(mem_table) ==
    LET rows == MemSeq(mem_table)
    IN  [keys   |-> [i \in 1..Len(rows) |-> rows[i].key],
         values |-> [i \in 1..Len(rows) |-> rows[i].value],
         index  |-> {[key |-> rows[i].key, ts |-> rows[i].ts, offset |-> i - 1] :
                        i \in 1..Len(rows)}]

\* IndexBatch::find: the first index entry at or after (key, ts), kept only when
\* its key is the key asked for; the value is read from its row.
BatchFind(b, k, ts) ==
    LET hit == MemFind(b.index, k, ts)
    IN  IF IsSome(hit)
        THEN Some([key |-> k, ts |-> Unwrap(hit).ts, value |-> b.values[Unwrap(hit).offset + 1]])
        ELSE None

\* IndexBatch::range.
BatchRange(b, lower, upper, ts) ==
    LET ks == KeySeq({k \in Keys : InBounds(k, lower, upper) /\ IsSome(BatchFind(b, k, ts))})
    IN  [i \in 1..Len(ks) |-> Unwrap(BatchFind(b, ks[i], ts))]

\* ---------------------------------------------------------------- WAL file
\* WalFile::write: refuses, writing nothing, when the byte counter after the
\* write would exceed max_wal_size.
WalAccepts(file) == (Len(file) + 1) * RecordSize <= MaxWalSize

\* ---------------------------------------------------------------- shards
\* jump_consistent_hash(fxhash64(key), worker_num): a fixed map from keys to shards.
ShardOf(k) == ((((k + 1) \div 2) - 1) % NumShards) + 1

\* ---------------------------------------------------------------- Db
\* A database is [mutable, immutable, files, wal]: the memtable of each shard,
\* the deque of frozen batches (front first), the WAL files in generation
\* order, and the generation of the active WAL file.
NewDb ==
    [mutable   |-> [s \in Shards |-> EmptyMemTable],
     immutable |-> <<>>,
     files     |-> << <<>> >>,
     wal       |-> 1]

\* Db::write, the part run on the owning shard under its write lock: the WAL
\* append and the memtable insert, or on MaxSizeExceeded the rotation.  Returns
\* the database and the memtable to freeze, if any.
WriteShardFreezeEdit(d, rt, k, ts, v) ==
    LET s == ShardOf(k)
    IN  IF WalAccepts(d.files[d.wal])
        THEN [db |-> [d EXCEPT !.files[d.wal] = Append(@, Record(rt, k, ts, v)),
                               !.mutable[s] = MemInsert(@, k, ts, v)],
              freeze |-> None]
        ELSE [db |-> [d EXCEPT !.files = Append(@, <<>>),
                               !.wal = Len(d.files) + 1,
                               !.mutable[s] = EmptyMemTable],
              freeze |-> Some(MemInsert(d.mutable[s], k, ts, v))]
WriteShardAppendsToNewFile(d, rt, k, ts, v) ==
    LET s == ShardOf(k)
    IN  IF WalAccepts(d.files[d.wal])
        THEN [db |-> [d EXCEPT !.files[d.wal] = Append(@, Record(rt, k, ts, v)),
                               !.mutable[s] = MemInsert(@, k, ts, v)],
              freeze |-> None]
        ELSE [db |-> [d EXCEPT !.files = Append(@, <<Record(rt, k, ts, v)>>),
                               !.wal = Len(d.files) + 1,
                               !.mutable[s] = MemInsert(EmptyMemTable, k, ts, v)],
              freeze |-> Some(d.mutable[s])]
WriteShard(d, rt, k, ts, v) ==
    LET s == ShardOf(k)
    IN  IF WalAccepts(d.files[d.wal])
        THEN [db |-> [d EXCEPT !.files[d.wal] = Append(@, Record(rt, k, ts, v)),
                               !.mutable[s] = MemInsert(@, k, ts, v)],
              freeze |-> None]
        ELSE [db |-> [d EXCEPT !.files = Append(@, <<>>),
                               !.wal = Len(d.files) + 1,
                               !.mutable[s] = MemInsert(EmptyMemTable, k, ts, v)],
              freeze |-> Some(d.mutable[s])]

\* Db::write, the part after the shard returns: the frozen memtable is pushed
\* to the back of the immutable deque.
PushBack(d, mem_table) == [d EXCEPT !.immutable = Append(@, Freeze(mem_table))]

\* Db::write when the WAL append fails with an error other than
\* MaxSizeExceeded: the shard returns Err(e) and Db::write returns it.
WriteShardErrAfterInsert(d, k, ts, v) == [d EXCEPT !.mutable[ShardOf(k)] = MemInsert(@, k, ts, v)]
WriteShardErr(d, k, ts, v) == d

\* Db::write run to completion with nothing interleaved.
WriteAll(d, rt, k, ts, v) ==
    LET r == WriteShard(d, rt, k, ts, v)
    IN  IF IsSome(r.freeze) THEN PushBack(r.db, Unwrap(r.freeze)) ELSE r.db

\* Db::get, up to the value: the owning shard's memtable, then the immutable
\* deque from the back to the front; the first hit is returned.
RECURSIVE FindImmutable(_, _, _, _)
FindImmutable(imm, i, k, ts) ==
    IF i = 0 THEN None
    ELSE IF IsSome(BatchFind(imm[i], k, ts)) THEN BatchFind(imm[i], k, ts)
    ELSE FindImmutable(imm, i - 1, k, ts)

DbFindByModulo(d, k, ts) ==
    IF IsSome(MemFind(d.mutable[((k - 1) % NumShards) + 1], k, ts))
    THEN MemFind(d.mutable[((k - 1) % NumShards) + 1], k, ts)
    ELSE FindImmutable(d.immutable, Len(d.immutable), k, ts)
DbFind(d, k, ts) ==
    IF IsSome(MemFind(d.mutable[ShardOf(k)], k, ts))
    THEN MemFind(d.mutable[ShardOf(k)], k, ts)
    ELSE FindImmutable(d.immutable, Len(d.immutable), k, ts)

\* Db::get: Option<V>; a tombstone hit and no hit both give None.
DbGet(d, k, ts) ==
    IF IsSome(DbFind(d, k, ts)) THEN Unwrap(DbFind(d, k, ts)).value ELSE None

\* Db::inner_range: one buffered source per mutable shard, then one per
\* immutable batch from the front of the deque to the back.
InnerRangeOpenBatches(d, lower, upper, ts) ==
    [i \in 1..NumShards |-> MemRange(d.mutable[i], lower, upper, ts)]
    \o [j \in 1..Len(d.immutable) |-> BatchRange(d.immutable[j], lower, None, ts)]
InnerRange(d, lower, upper, ts) ==
    [i \in 1..NumShards |-> MemRange(d.mutable[i], lower, upper, ts)]
    \o [j \in 1..Len(d.immutable) |-> BatchRange(d.immutable[j], lower, upper, ts)]

\* MergeIterator: ascending keys; on a tie the source of highest priority wins
\* (a mutable shard over any batch, a batch nearer the back over one nearer the
\* front) and every source holding the key is advanced.
Priority(i, n) == IF i <= NumShards THEN n + (NumShards - i) + 1 ELSE i

RECURSIVE Merge(_)
Merge(srcs) ==
    LET live == {i \in 1..Len(srcs) : srcs[i] # <<>>}
    IN  IF live = {} THEN <<>>
        ELSE LET k    == CHOOSE x \in {Head(srcs[i]).key : i \in live} :
                            \A i \in live : x <= Head(srcs[i]).key
                 tie  == {i \in live : Head(srcs[i]).key = k}
                 best == CHOOSE i \in tie :
                            \A j \in tie : Priority(j, Len(srcs)) <= Priority(i, Len(srcs))
             IN  <<Head(srcs[best])>>
                 \o Merge([i \in 1..Len(srcs) |-> IF i \in tie THEN Tail(srcs[i]) ELSE srcs[i]])

\* Db::range.
DbRange(d, lower, upper, ts) == Merge(InnerRange(d, lower, upper, ts))

\* Db::recover: every record of one WAL file is written again, as First.
RECURSIVE RecoverFile(_, _)
RecoverFile(d, recs) ==
    IF recs = <<>> THEN d
    ELSE RecoverFile(WriteAll(d, First, Head(recs).key, Head(recs).ts, Head(recs).value),
                     Tail(recs))

\* Db::new: fresh shards and deque, a new active WAL file, then the files the
\* provider lists (those that existed before) are recovered in generation order.
RECURSIVE RecoverFiles(_, _, _)
RecoverFiles(d, old, i) ==
    IF i > Len(old) THEN d ELSE RecoverFiles(RecoverFile(d, old[i]), old, i + 1)

DbNew(old) ==
    RecoverFiles([mutable   |-> [s \in Shards |-> EmptyMemTable],
                  immutable |-> <<>>,
                  files     |-> Append(old, <<>>),
                  wal       |-> Len(old) + 1],
                 old, 1)

\* Db::write_batch: the record type of the i-th of n edits.
BatchRecordType(i, n) ==
    IF n = 1 THEN Full
    ELSE IF i = 1 THEN First
    ELSE IF i = n THEN Last
    ELSE Middle

\* ---------------------------------------------------------------- oracle
\* write_commit: the keys of write_set also written by a commit recorded with a
\* timestamp in (read_at, write_at].
ConflictsFromReadAt(cw, read_at, write_at, write_set) ==
    {k \in write_set : \E c \in cw : read_at <= c.ts /\ c.ts <= write_at /\ k \in c.keys}
Conflicts(cw, read_at, write_at, write_set) ==
    {k \in write_set : \E c \in cw : read_at < c.ts /\ c.ts <= write_at /\ k \in c.keys}

\* ---------------------------------------------------------------- transaction
\* The local buffer maps a key to None (no edit), Some(None) (removed) or
\* Some(Some(v)) (set).
EmptyLocal == [k \in Keys |-> None]
WriteSet(local) == {k \in Keys : IsSome(local[k])}
\* BTreeMap::into_iter: the edits in ascending key order.
Edits(local) == KeySeq(WriteSet(local))

IdleTxn ==
    [pc |-> "idle", read_at |-> 0, write_at |-> None, local |-> EmptyLocal,
     next |-> 1, after |-> {}, epoch |-> 0, conflict |-> {}]

\* ---------------------------------------------------------------- state
VARIABLES
    now,               \* oracle: the clock
    in_read,           \* oracle: how many live reads hold each timestamp
    committed_writes,  \* oracle: the recorded commits, [ts, keys]
    txn,               \* the transactions
    mutable_shards,    \* Db: the memtable of each shard
    immutable,         \* Db: the deque of frozen batches, front first
    wal_files,         \* the provider's WAL files, in generation order
    wal,               \* Db: the generation of the active WAL file
    inflight,          \* per writer: the memtable swapped out and not yet pushed
    versions,          \* history: every version written, the last value per (key, ts)
    nwrites,           \* history: how many direct writes were made
    reopens,           \* history: how many times the database was reopened
    mt_data,           \* mem_table.rs MemTable: data, the versions by (key, ts)
    mt_wal,            \* mem_table.rs MemTable: wal, the records written
    mt_panic,          \* mem_table.rs MemTable: MemTable::new panicked in recover
    recovered,         \* mem_table/mod.rs: what MemTable::from_wal made of the WAL
    rec_phase,         \* Db::new: "none", "listing", "reading" or "done"
    rec_listing,       \* Db::new: which files the provider's list yields
    rec_old,           \* Db::new: how many files existed before the active one was created
    rec_file,          \* Db::new: the generation of the file being recovered
    rec_pos,           \* Db::recover: how many records of that file were read
    io_errors,         \* history: how many Db::write calls returned an Io error
    ls_tables,         \* LevelStream: the tables of gens, [size, pend] each
    ls_fused,          \* LevelStream: a TableStream polled after its end returns None again
    ls,                \* LevelStream: [phase, gens, stream, future, out]
    dec_in,            \* Record::decode: the bytes read
    dec_out            \* Record::decode: [tag, record], tag "ok", "err" or "panic"

vars == <<now, in_read, committed_writes, txn, mutable_shards, immutable,
          wal_files, wal, inflight, versions, nwrites, reopens, mt_data, mt_wal,
          mt_panic, recovered, rec_phase, rec_listing, rec_old, rec_file, rec_pos,
          io_errors, ls_tables, ls_fused, ls, dec_in, dec_out>>

oracle_vars == <<now, in_read, committed_writes>>
db_vars == <<mutable_shards, immutable, wal_files, wal>>
mt_vars == <<mt_data, mt_wal, mt_panic, recovered>>
rec_vars == <<rec_phase, rec_listing, rec_old, rec_file, rec_pos>>
err_vars == <<io_errors>>
ls_vars == <<ls_tables, ls_fused, ls>>
dec_vars == <<dec_in, dec_out>>

\* The task that calls GetWrite::write directly.
DirectWriter == NumTxns + 1
Writers == Txns \cup {DirectWriter}

\* The database the variables hold.
Cur ==
    [mutable |-> mutable_shards, immutable |-> immutable, files |-> wal_files, wal |-> wal]

SetDb(d) ==
    /\ mutable_shards' = d.mutable
    /\ immutable' = d.immutable
    /\ wal_files' = d.files
    /\ wal' = d.wal

Init ==
    /\ now = 0
    /\ in_read = [ts \in Timestamps |-> 0]
    /\ committed_writes = {}
    /\ txn = [t \in Txns |-> IdleTxn]
    /\ mutable_shards = NewDb.mutable
    /\ immutable = NewDb.immutable
    /\ wal_files = NewDb.files
    /\ wal = NewDb.wal
    /\ inflight = [w \in Writers |-> None]
    /\ versions = {}
    /\ nwrites = 0
    /\ reopens = 0
    /\ mt_data = {}
    /\ mt_wal = <<>>
    /\ mt_panic = FALSE
    /\ recovered = [data |-> EmptyMemTable, panic |-> FALSE]
    /\ rec_phase = "none"
    /\ rec_listing = "old"
    /\ rec_old = 0
    /\ rec_file = 0
    /\ rec_pos = 0
    /\ io_errors = 0
    /\ ls_tables = <<>>
    /\ ls_fused = TRUE
    /\ ls = [phase |-> "unborn", gens |-> <<>>, stream |-> None, future |-> None, out |-> <<>>]
    /\ dec_in = <<>>
    /\ dec_out = [tag |-> "none", record |-> None]

\* Transaction::get: the local buffer answers only when it holds a value for the
\* key; otherwise the engine is read at read_at.
TxnGet(t, k) ==
    IF IsSome(txn[t].local[k]) /\ IsSome(Unwrap(txn[t].local[k]))
    THEN Unwrap(txn[t].local[k])
    ELSE DbGet(Cur, k, txn[t].read_at)

\* Transaction::range: the local edits within the bounds merged with the engine
\* scan at read_at; for a key held by both, the local edit is the one emitted.
TxnRange(t, lower, upper) ==
    LET eng    == DbRange(Cur, lower, upper, txn[t].read_at)
        engine == {eng[i] : i \in 1..Len(eng)}
        ks     == KeySeq({k \in Keys :
                            /\ InBounds(k, lower, upper)
                            /\ IsSome(txn[t].local[k]) \/ \E e \in engine : e.key = k})
    IN  [i \in 1..Len(ks) |->
            IF IsSome(txn[t].local[ks[i]])
            THEN [key |-> ks[i], value |-> Unwrap(txn[t].local[ks[i]])]
            ELSE [key |-> ks[i], value |-> (CHOOSE e \in engine : e.key = ks[i]).value]]

\* ---------------------------------------------------------------- actions
\* Db::new_txn / Transaction::new: the read timestamp is the oracle's start_read.
NewTxn(t) ==
    /\ txn[t].pc = "idle"
    /\ t > 1 => txn[t - 1].pc # "idle"
    /\ txn' = [txn EXCEPT ![t] = [IdleTxn EXCEPT !.pc = "open", !.read_at = now,
                                      !.epoch = reopens,
                                      !.after = {u \in Txns : txn[u].pc = "ok"
                                                              /\ txn[u].epoch = reopens}]]
    /\ in_read' = [in_read EXCEPT ![now] = @ + 1]
    /\ UNCHANGED <<now, committed_writes, db_vars, inflight, versions, nwrites, reopens, mt_vars, rec_vars, err_vars, ls_vars, dec_vars>>

\* Transaction::set / Transaction::remove / Transaction::entry.
TxnEntry(t, k, v) ==
    /\ txn[t].pc = "open"
    /\ txn[t].local[k] # Some(v)
    /\ txn' = [txn EXCEPT ![t].local[k] = Some(v)]
    /\ UNCHANGED <<oracle_vars, db_vars, inflight, versions, nwrites, reopens, mt_vars, rec_vars, err_vars, ls_vars, dec_vars>>

TxnSet(t, k) == TxnEntry(t, k, Some(ValueOf(t)))
TxnRemove(t, k) == TxnEntry(t, k, None)

\* Transaction::commit, first oracle call: read_commit(read_at); with an empty
\* local buffer commit then returns Ok.
CommitReadCommitThenTick(t) ==
    /\ txn[t].pc = "open"
    /\ in_read' = [in_read EXCEPT ![txn[t].read_at] = @ - 1]
    /\ now' = IF WriteSet(txn[t].local) = {} /\ now < MaxTs THEN now + 1 ELSE now
    /\ txn' = [txn EXCEPT ![t].pc = IF WriteSet(txn[t].local) = {} THEN "ok" ELSE "released"]
    /\ UNCHANGED <<committed_writes, db_vars, inflight, versions, nwrites, reopens, mt_vars, rec_vars, err_vars, ls_vars, dec_vars>>
CommitReadCommit(t) ==
    /\ txn[t].pc = "open"
    /\ in_read' = [in_read EXCEPT ![txn[t].read_at] = @ - 1]
    /\ txn' = [txn EXCEPT ![t].pc = IF WriteSet(txn[t].local) = {} THEN "ok" ELSE "released"]
    /\ UNCHANGED <<now, committed_writes, db_vars, inflight, versions, nwrites, reopens, mt_vars, rec_vars, err_vars, ls_vars, dec_vars>>

\* Transaction::commit, second oracle call: write_at = tick().
CommitTick(t) ==
    /\ txn[t].pc = "released"
    /\ now < MaxTs
    /\ now' = now + 1
    /\ txn' = [txn EXCEPT ![t].pc = "ticked", ![t].write_at = Some(now + 1)]
    /\ UNCHANGED <<in_read, committed_writes, db_vars, inflight, versions, nwrites, reopens, mt_vars, rec_vars, err_vars, ls_vars, dec_vars>>

\* Transaction::commit, third oracle call: write_commit; a conflict ends the
\* commit with WriteConflict(keys).
CommitWriteCommitRecordsFailed(t) ==
    /\ txn[t].pc = "ticked"
    /\ LET c == Conflicts(committed_writes, txn[t].read_at, Unwrap(txn[t].write_at),
                          WriteSet(txn[t].local))
       IN  /\ committed_writes' = committed_writes \cup
                   {[ts |-> Unwrap(txn[t].write_at), keys |-> WriteSet(txn[t].local)]}
           /\ txn' = [txn EXCEPT ![t].pc = IF c # {} THEN "conflict" ELSE "writing",
                                 ![t].conflict = c]
    /\ UNCHANGED <<now, in_read, db_vars, inflight, versions, nwrites, reopens, mt_vars, rec_vars, err_vars, ls_vars, dec_vars>>
CommitWriteCommitWritesFirst(t) ==
    /\ txn[t].pc = "ticked"
    /\ LET c == Conflicts(committed_writes, txn[t].read_at, Unwrap(txn[t].write_at),
                          WriteSet(txn[t].local))
           k == Edits(txn[t].local)[1]
       IN  IF c # {}
           THEN /\ txn' = [txn EXCEPT ![t].pc = "conflict", ![t].conflict = c]
                /\ SetDb(WriteAll(Cur, Full, k, Unwrap(txn[t].write_at),
                                  Unwrap(txn[t].local[k])))
                /\ UNCHANGED committed_writes
           ELSE /\ committed_writes' = committed_writes \cup
                        {[ts |-> Unwrap(txn[t].write_at), keys |-> WriteSet(txn[t].local)]}
                /\ txn' = [txn EXCEPT ![t].pc = "writing"]
                /\ UNCHANGED db_vars
    /\ UNCHANGED <<now, in_read, inflight, versions, nwrites, reopens, mt_vars, rec_vars, err_vars, ls_vars, dec_vars>>
CommitWriteCommit(t) ==
    /\ txn[t].pc = "ticked"
    /\ LET c == Conflicts(committed_writes, txn[t].read_at, Unwrap(txn[t].write_at),
                          WriteSet(txn[t].local))
       IN  IF c # {}
           THEN /\ txn' = [txn EXCEPT ![t].pc = "conflict", ![t].conflict = c]
                /\ UNCHANGED committed_writes
           ELSE /\ committed_writes' = committed_writes \cup
                        {[ts |-> Unwrap(txn[t].write_at), keys |-> WriteSet(txn[t].local)]}
                /\ txn' = [txn EXCEPT ![t].pc = "writing"]
    /\ UNCHANGED <<now, in_read, db_vars, inflight, versions, nwrites, reopens, mt_vars, rec_vars, err_vars, ls_vars, dec_vars>>

\* Transaction::commit, the batch: one Db::write per edit, in key order.  This
\* step is the part of Db::write run on the shard; the push of a frozen
\* memtable is PushFrozen.  commit returns Ok when the last write returns.
CommitWrite(t) ==
    /\ txn[t].pc = "writing"
    /\ inflight[t] = None
    /\ LET es == Edits(txn[t].local)
           i  == txn[t].next
           k  == es[i]
           ts == Unwrap(txn[t].write_at)
           v  == Unwrap(txn[t].local[k])
           r  == WriteShard(Cur, BatchRecordType(i, Len(es)), k, ts, v)
       IN  /\ SetDb(r.db)
           /\ inflight' = [inflight EXCEPT ![t] = r.freeze]
           /\ versions' = MemInsert(versions, k, ts, v)
           /\ txn' = [txn EXCEPT ![t].next = i + 1,
                                 ![t].pc = IF i = Len(es) /\ r.freeze = None
                                           THEN "ok" ELSE "writing"]
    /\ UNCHANGED <<oracle_vars, nwrites, reopens, mt_vars, rec_vars, err_vars, ls_vars, dec_vars>>

\* GetWrite::write called directly: one Full record at a timestamp of the
\* caller's choice (the part of Db::write run on the shard).
DbWrite(w, k, ts, v) ==
    /\ rec_phase \in {"none", "done"}
    /\ inflight[w] = None
    /\ nwrites < MaxWrites
    /\ LET r == WriteShard(Cur, Full, k, ts, v)
       IN  /\ SetDb(r.db)
           /\ inflight' = [inflight EXCEPT ![w] = r.freeze]
    /\ versions' = MemInsert(versions, k, ts, v)
    /\ nwrites' = nwrites + 1
    /\ UNCHANGED <<oracle_vars, txn, reopens, mt_vars, rec_vars, err_vars, ls_vars, dec_vars>>

\* Db::write, after the shard returns Some(mem_table): freeze and push_back.
PushFrozen(w) ==
    /\ inflight[w] # None
    /\ SetDb(PushBack(Cur, Unwrap(inflight[w])))
    /\ inflight' = [inflight EXCEPT ![w] = None]
    /\ txn' = IF w \in Txns /\ txn[w].next > Len(Edits(txn[w].local))
              THEN [txn EXCEPT ![w].pc = "ok"] ELSE txn
    /\ UNCHANGED <<oracle_vars, versions, nwrites, reopens, mt_vars, rec_vars, err_vars, ls_vars, dec_vars>>

\* The Db is dropped (no transaction and no write is running) and Db::new is
\* called on the same directory with a new LocalOracle.
Quiescent ==
    /\ \A t \in Txns : txn[t].pc \in {"idle", "ok", "conflict"}
    /\ \A w \in Writers : inflight[w] = None

Reopen ==
    /\ Quiescent
    /\ reopens < MaxReopen
    /\ Len(wal_files[1]) > 0
    /\ SetDb(DbNew(wal_files))
    /\ now' = 0
    /\ in_read' = [ts \in Timestamps |-> 0]
    /\ committed_writes' = {}
    /\ reopens' = reopens + 1
    /\ UNCHANGED <<txn, inflight, versions, nwrites, mt_vars, rec_vars, err_vars, ls_vars, dec_vars>>

\* The steps of the transactions of T, editing the keys of K.
TxnNext(T, K) ==
    \/ \E t \in T : NewTxn(t)
    \/ \E t \in T, k \in K : TxnSet(t, k)
    \/ \E t \in T, k \in K : TxnRemove(t, k)
    \/ \E t \in T : CommitReadCommit(t)
    \/ \E t \in T : CommitTick(t)
    \/ \E t \in T : CommitWriteCommit(t)
    \/ \E t \in T : CommitWrite(t)
    \/ \E t \in T : PushFrozen(t)

\* Two transactions over all keys.
Next == TxnNext(1..NumPair, Keys)

Spec == Init /\ [][Next]_vars

\* Two transactions over all keys, and the database closed and reopened.
NextReopen == TxnNext(1..NumPair, Keys) \/ Reopen

SpecReopen == Init /\ [][NextReopen]_vars

\* Every transaction, all contending on one key.
NextThree == TxnNext(Txns, {HotKey})

SpecThree == Init /\ [][NextThree]_vars

\* LocalOracle, the bound on committed_writes: the entries older than the
\* minimum live read are dropped.  The collection may run whenever a read is
\* live.
LiveReads == {ts \in Timestamps : in_read[ts] > 0}
MinLiveRead == CHOOSE ts \in LiveReads : \A u \in LiveReads : ts <= u
GcCommittedWrites ==
    /\ LiveReads # {}
    /\ \E c \in committed_writes : c.ts < MinLiveRead
    /\ committed_writes' = {c \in committed_writes : c.ts >= MinLiveRead}
    /\ UNCHANGED <<now, in_read, txn, db_vars, inflight, versions, nwrites, reopens, mt_vars, rec_vars, err_vars, ls_vars, dec_vars>>

\* Every transaction on one key, and the oracle's garbage collection.
NextGc == TxnNext(Txns, {HotKey}) \/ GcCommittedWrites

SpecGc == Init /\ [][NextGc]_vars

\* Direct writes at timestamps of the caller's choice.
NextDb ==
    \/ \E k \in Keys, ts \in DirectTimestamps, v \in DirectValues :
            DbWrite(DirectWriter, k, ts, v)
    \/ PushFrozen(DirectWriter)

SpecDb == Init /\ [][NextDb]_vars

\* GetWrite::write called directly while the WAL's byte sink fails: Db::write
\* returns the Io error.
DbWriteIoError(w, k, ts, v) ==
    /\ rec_phase \in {"none", "done"}
    /\ inflight[w] = None
    /\ nwrites < MaxWrites
    /\ io_errors < MaxIoErrors
    /\ SetDb(WriteShardErr(Cur, k, ts, v))
    /\ nwrites' = nwrites + 1
    /\ io_errors' = io_errors + 1
    /\ UNCHANGED <<oracle_vars, txn, inflight, versions, reopens, mt_vars, rec_vars, ls_vars, dec_vars>>

\* Direct writes, some of which fail in the WAL.
NextIo ==
    \/ \E k \in Keys, ts \in DirectTimestamps, v \in DirectValues :
            DbWrite(DirectWriter, k, ts, v)
    \/ PushFrozen(DirectWriter)
    \/ \E k \in Keys, ts \in DirectTimestamps, v \in DirectValues :
            DbWriteIoError(DirectWriter, k, ts, v)

SpecIo == Init /\ [][NextIo]_vars

\* ---------------------------------------------------------------- LevelStream
\* A table of gens is [size, pend]: how many items its TableStream yields, and
\* how many times the future that opens it returns Pending before it completes.
\* The items of table g are <<g, 1>> .. <<g, size>>.
Tables == [size : 0..MaxItems, pend : 0..MaxPending]

TableSeqs == UNION {[1..n -> Tables] : n \in 0..MaxGens}

OpenStream(g) == Some([gen |-> g, pos |-> 0, done |-> FALSE])

\* LevelStream::poll_next, from `if let Some(stream) = &mut self.stream` on:
\* the current stream is polled; when it ends the next generation is popped
\* and the future that opens it is polled once; Ready continues with the new
\* stream, Pending stores the future.
RECURSIVE PollStream(_, _, _)
PollStream(st, tables, fused) ==
    IF st.stream = None THEN [st EXCEPT !.phase = "ended"]
    ELSE LET s == Unwrap(st.stream)
             ended == [st EXCEPT !.stream = Some([s EXCEPT !.done = TRUE])]
         IN  IF s.done /\ ~fused THEN [st EXCEPT !.phase = "panicked"]
             ELSE IF ~s.done /\ s.pos < tables[s.gen].size
             THEN [st EXCEPT !.stream = Some([s EXCEPT !.pos = @ + 1]),
                             !.out = Append(@, <<s.gen, s.pos + 1>>)]
             ELSE IF st.gens = <<>> THEN [ended EXCEPT !.phase = "ended"]
             ELSE IF tables[Head(st.gens)].pend = 0
             THEN PollStream([ended EXCEPT !.gens = Tail(@),
                                           !.stream = OpenStream(Head(st.gens))],
                             tables, fused)
             ELSE [ended EXCEPT !.gens = Tail(@),
                                !.future = Some([gen  |-> Head(st.gens),
                                                 left |-> tables[Head(st.gens)].pend - 1])]

\* LevelStream::poll_next, the stored future: Ready(Ok(stream)) sets the stream
\* and calls poll_next again with the completed future still stored, which
\* polls it again and panics; Pending drops the future.
PollFuture(st, tables, fused) ==
    LET f == Unwrap(st.future)
    IN  IF f.left = 0
        THEN [st EXCEPT !.stream = OpenStream(f.gen), !.phase = "panicked"]
        ELSE [st EXCEPT !.future = None]

\* LevelStream::poll_next.
PollNext(st, tables, fused) ==
    IF st.future # None THEN PollFuture(st, tables, fused) ELSE PollStream(st, tables, fused)

\* LevelStream::new: the first generation is popped and its stream opened.
LsNew(tables, fused) ==
    /\ ls.phase = "unborn"
    /\ ls_tables' = tables
    /\ ls_fused' = fused
    /\ ls' = [phase  |-> "live",
              gens   |-> IF Len(tables) = 0 THEN <<>>
                         ELSE [i \in 1..(Len(tables) - 1) |-> i + 1],
              stream |-> IF Len(tables) = 0 THEN None ELSE OpenStream(1),
              future |-> None,
              out    |-> <<>>]
    /\ UNCHANGED <<oracle_vars, db_vars, txn, inflight, versions, nwrites, reopens,
                   mt_vars, rec_vars, err_vars, dec_vars>>

\* One call of poll_next by the consumer.
LsPollNext ==
    /\ ls.phase = "live"
    /\ ls' = PollNext(ls, ls_tables, ls_fused)
    /\ UNCHANGED <<oracle_vars, db_vars, txn, inflight, versions, nwrites, reopens,
                   mt_vars, rec_vars, err_vars, ls_tables, ls_fused, dec_vars>>

NextLevelStream ==
    \/ \E tables \in TableSeqs, fused \in BOOLEAN : LsNew(tables, fused)
    \/ LsPollNext

SpecLevelStream == Init /\ [][NextLevelStream]_vars

\* ---------------------------------------------------------------- Record::decode
\* A framed record is [type][key][ts][tag][value]: one byte each here, the tag 0
\* for None and 1 for Some.
Bytes == 0..MaxByte

Frames == UNION {[1..n -> Bytes] : n \in 0..MaxFrame}

\* RecordType::from(u8): Some(type), or None where the match arm is
\* unreachable!().
RecordTypeFrom(b) == IF b \in {Full, First, Middle, Last} THEN Some(b) ELSE None

\* Record::decode: read_exact of the type byte, RecordType::from, then the key,
\* the timestamp and the Option value; a source that ends early is an error.
RecordDecode(bytes) ==
    IF Len(bytes) < 1 THEN [tag |-> "err", record |-> None]
    ELSE IF RecordTypeFrom(bytes[1]) = None THEN [tag |-> "panic", record |-> None]
    ELSE IF Len(bytes) < 4 THEN [tag |-> "err", record |-> None]
    ELSE IF bytes[4] = 0
    THEN [tag |-> "ok",
          record |-> Some(Record(Unwrap(RecordTypeFrom(bytes[1])), bytes[2], bytes[3], None))]
    ELSE IF bytes[4] = 1 /\ Len(bytes) >= 5
    THEN [tag |-> "ok",
          record |-> Some(Record(Unwrap(RecordTypeFrom(bytes[1])), bytes[2], bytes[3],
                                 Some(bytes[5])))]
    ELSE [tag |-> "err", record |-> None]

\* Record::decode called on a byte source that has not been read yet.
Decode(bytes) ==
    /\ dec_out.tag = "none"
    /\ dec_in' = bytes
    /\ dec_out' = RecordDecode(bytes)
    /\ UNCHANGED <<oracle_vars, db_vars, txn, inflight, versions, nwrites, reopens,
                   mt_vars, rec_vars, err_vars, ls_vars>>

NextDecode == \E bytes \in Frames : Decode(bytes)

SpecDecode == Init /\ [][NextDecode]_vars

\* ---------------------------------------------------------------- Db::new, step by step
\* The provider's list() is a lazy sequence of the existing files.  Db::new
\* creates the active WAL file before it calls list(), so what the sequence
\* yields depends on the provider: the files that existed before the active
\* one ("old"), those existing when list() is called ("call"), or whatever
\* exists when the next file is pulled ("lazy").
Listings == {"old", "call", "lazy"}

ListEnd ==
    IF rec_listing = "old" THEN rec_old
    ELSE IF rec_listing = "call" THEN rec_old + 1
    ELSE Len(wal_files)

\* Db::new up to the call of list(): fresh shards and deque, a new active WAL
\* file, a new LocalOracle.
NewStart ==
    /\ Quiescent
    /\ rec_phase \in {"none", "done"}
    /\ reopens < MaxReopen
    /\ Len(wal_files[1]) > 0
    /\ SetDb([mutable   |-> [s \in Shards |-> EmptyMemTable],
              immutable |-> <<>>,
              files     |-> Append(wal_files, <<>>),
              wal       |-> Len(wal_files) + 1])
    /\ now' = 0
    /\ in_read' = [ts \in Timestamps |-> 0]
    /\ committed_writes' = {}
    /\ reopens' = reopens + 1
    /\ rec_phase' = "listing"
    /\ rec_listing' \in Listings
    /\ rec_old' = Len(wal_files)
    /\ rec_file' = 0
    /\ rec_pos' = 0
    /\ UNCHANGED <<txn, inflight, versions, nwrites, mt_vars, err_vars, ls_vars, dec_vars>>

\* Db::new, file_stream.next(): the next file is recovered, or Db::new returns.
NewListNext ==
    /\ rec_phase = "listing"
    /\ IF rec_file + 1 <= ListEnd
       THEN /\ rec_phase' = "reading"
            /\ rec_file' = rec_file + 1
            /\ rec_pos' = 0
       ELSE /\ rec_phase' = "done"
            /\ UNCHANGED <<rec_file, rec_pos>>
    /\ UNCHANGED <<oracle_vars, db_vars, txn, inflight, versions, nwrites, reopens,
                   mt_vars, rec_listing, rec_old, err_vars, ls_vars, dec_vars>>

\* Db::recover, stream.next(): the next record of the file is written again
\* through Db::write, or the stream ends.
NewRecoverRecord ==
    /\ rec_phase = "reading"
    /\ IF rec_pos < Len(wal_files[rec_file])
       THEN /\ Len(wal_files) < MaxFiles
            /\ LET r == wal_files[rec_file][rec_pos + 1]
               IN  SetDb(WriteAll(Cur, First, r.key, r.ts, r.value))
            /\ rec_pos' = rec_pos + 1
            /\ UNCHANGED rec_phase
       ELSE /\ rec_phase' = "listing"
            /\ UNCHANGED <<db_vars, rec_pos>>
    /\ UNCHANGED <<oracle_vars, txn, inflight, versions, nwrites, reopens,
                   mt_vars, rec_listing, rec_old, rec_file, err_vars, ls_vars, dec_vars>>

\* Direct writes, then the database closed and opened again; the recovery loop
\* of Db::new keeps running until it returns.
NextNew ==
    \/ \E k \in Keys, ts \in DirectTimestamps, v \in DirectValues :
            DbWrite(DirectWriter, k, ts, v)
    \/ PushFrozen(DirectWriter)
    \/ NewStart
    \/ NewListNext
    \/ NewRecoverRecord

SpecNew ==
    Init /\ [][NextNew]_vars /\ WF_vars(NewListNext) /\ WF_vars(NewRecoverRecord)

\* ---------------------------------------------------------------- mem_table.rs
\* The memtable of mem_table.rs owns its WAL: insert writes the record to the
\* WAL and then puts (key, ts) -> value into data.
SkipInsert(data, k, ts, v) ==
    {e \in data : ~(e.key = k /\ e.ts = ts)} \cup {[key |-> k, ts |-> ts, value |-> v]}

\* MemTable::put_batch: the record type given to the i-th of n edits.
PutBatchRecordType(i, n) == IF n = 1 THEN Full ELSE First

\* MemTable::insert(record).
MtInsert(rt, k, ts, v) ==
    /\ ~mt_panic
    /\ Len(mt_wal) < MaxLogLen
    /\ mt_wal' = Append(mt_wal, Record(rt, k, ts, v))
    /\ mt_data' = SkipInsert(mt_data, k, ts, v)
    /\ UNCHANGED <<oracle_vars, db_vars, txn, inflight, versions, nwrites, reopens,
                   mt_panic, recovered, rec_vars, err_vars, ls_vars, dec_vars>>

\* MemTable::put_batch(kvs): one insert per edit, in the order of kvs; here the
\* edits are the keys of ks in ascending order, all at ts with value v.
MtPutBatch(ks, ts, v) ==
    LET es == KeySeq(ks)
        n  == Len(es)
    IN  /\ ~mt_panic
        /\ Len(mt_wal) + n <= MaxLogLen
        /\ mt_wal' = mt_wal \o [i \in 1..n |-> Record(PutBatchRecordType(i, n), es[i], ts, v)]
        /\ mt_data' = {e \in mt_data : ~(e.key \in ks /\ e.ts = ts)}
                      \cup {[key |-> k, ts |-> ts, value |-> v] : k \in ks}
        /\ UNCHANGED <<oracle_vars, db_vars, txn, inflight, versions, nwrites, reopens,
                   mt_panic, recovered, rec_vars, err_vars, ls_vars, dec_vars>>

\* Calls on one mem_table.rs MemTable.
NextMemTable ==
    \/ \E k \in Keys, ts \in DirectTimestamps, v \in DirectValues : MtInsert(Full, k, ts, v)
    \/ \E ks \in SUBSET Keys, ts \in DirectTimestamps, v \in DirectValues : MtPutBatch(ks, ts, v)

SpecMemTable == Init /\ [][NextMemTable]_vars

\* MemTable::get of mem_table.rs: the value of the last version of key at or
\* before ts; a tombstone and a missing key both give None.
MtGet(data, k, ts) ==
    LET c == {e \in data : e.key = k /\ e.ts <= ts}
    IN  IF c = {} THEN None ELSE (CHOOSE e \in c : \A o \in c : o.ts <= e.ts).value

\* ---------------------------------------------------------------- recover
RecordTypes == {Full, First, Middle, Last}

\* The state of a recover loop: the memtable, the open batch (Option<Vec>), and
\* whether a panic! was reached.
RecoverStart == [data |-> EmptyMemTable, batch |-> None, panic |-> FALSE]

\* The records of rs inserted one after the other.
RECURSIVE InsertAll(_, _)
InsertAll(data, rs) ==
    IF rs = <<>> THEN data
    ELSE InsertAll(MemInsert(data, Head(rs).key, Head(rs).ts, Head(rs).value), Tail(rs))

\* MemTable::recover of mem_table/mod.rs, the body of the loop for record r.
RecoverRecordEager(st, r) ==
    IF st.panic THEN st
    ELSE IF r.record_type = Full
    THEN [st EXCEPT !.data = MemInsert(@, r.key, r.ts, r.value)]
    ELSE IF r.record_type = First
    THEN IF st.batch = None
         THEN [st EXCEPT !.batch = Some(<<r>>), !.data = MemInsert(@, r.key, r.ts, r.value)]
         ELSE [st EXCEPT !.panic = TRUE]
    ELSE IF r.record_type = Middle
    THEN IF IsSome(st.batch)
         THEN [st EXCEPT !.batch = Some(Append(Unwrap(st.batch), r))]
         ELSE [st EXCEPT !.panic = TRUE]
    ELSE IF IsSome(st.batch)
         THEN [st EXCEPT !.batch = None,
                         !.data = MemInsert(InsertAll(@, Unwrap(st.batch)), r.key, r.ts, r.value)]
         ELSE [st EXCEPT !.panic = TRUE]
RecoverRecord(st, r) ==
    IF st.panic THEN st
    ELSE IF r.record_type = Full
    THEN [st EXCEPT !.data = MemInsert(@, r.key, r.ts, r.value)]
    ELSE IF r.record_type = First
    THEN IF st.batch = None
         THEN [st EXCEPT !.batch = Some(<<r>>)]
         ELSE [st EXCEPT !.panic = TRUE]
    ELSE IF r.record_type = Middle
    THEN IF IsSome(st.batch)
         THEN [st EXCEPT !.batch = Some(Append(Unwrap(st.batch), r))]
         ELSE [st EXCEPT !.panic = TRUE]
    ELSE IF IsSome(st.batch)
         THEN [st EXCEPT !.batch = None,
                         !.data = MemInsert(InsertAll(@, Unwrap(st.batch)), r.key, r.ts, r.value)]
         ELSE [st EXCEPT !.panic = TRUE]

\* MemTable::recover of mem_table/mod.rs over the whole stream; a batch still
\* open at the end of the stream is dropped.
RECURSIVE MemTableRecover(_, _)
MemTableRecover(st, stream) ==
    IF stream = <<>> THEN st
    ELSE MemTableRecover(RecoverRecord(st, Head(stream)), Tail(stream))

\* MemTable::from_wal of mem_table/mod.rs.
MemTableFromWal(stream) ==
    LET st == MemTableRecover(RecoverStart, stream)
    IN  [data |-> IF st.panic THEN EmptyMemTable ELSE st.data, panic |-> st.panic]

\* MemTable::recover of mem_table.rs, the body of the loop for record r: Last
\* is pushed into the batch and the whole batch is then inserted.
RECURSIVE SkipInsertAll(_, _)
SkipInsertAll(data, rs) ==
    IF rs = <<>> THEN data
    ELSE SkipInsertAll(SkipInsert(data, Head(rs).key, Head(rs).ts, Head(rs).value), Tail(rs))

MtRecoverRecord(st, r) ==
    IF st.panic THEN st
    ELSE IF r.record_type = Full
    THEN [st EXCEPT !.data = SkipInsert(@, r.key, r.ts, r.value)]
    ELSE IF r.record_type = First
    THEN IF st.batch = None
         THEN [st EXCEPT !.batch = Some(<<r>>)]
         ELSE [st EXCEPT !.panic = TRUE]
    ELSE IF r.record_type = Middle
    THEN IF IsSome(st.batch)
         THEN [st EXCEPT !.batch = Some(Append(Unwrap(st.batch), r))]
         ELSE [st EXCEPT !.panic = TRUE]
    ELSE IF IsSome(st.batch)
         THEN [st EXCEPT !.batch = None,
                         !.data = SkipInsertAll(@, Append(Unwrap(st.batch), r))]
         ELSE [st EXCEPT !.panic = TRUE]

RECURSIVE MtRecover(_, _)
MtRecover(st, stream) ==
    IF stream = <<>> THEN st
    ELSE MtRecover(MtRecoverRecord(st, Head(stream)), Tail(stream))

\* MemTable::new of mem_table.rs on the WAL written so far: the data is what
\* recover makes of the WAL, unless recover panics.
MtNew ==
    /\ ~mt_panic
    /\ LET st == MtRecover(RecoverStart, mt_wal)
       IN  /\ mt_panic' = st.panic
           /\ mt_data' = IF st.panic THEN mt_data ELSE st.data
    /\ UNCHANGED <<oracle_vars, db_vars, txn, inflight, versions, nwrites, reopens,
                   mt_wal, recovered, rec_vars, err_vars, ls_vars, dec_vars>>

\* MemTable::from_wal of mem_table/mod.rs on the same WAL.
FromWal ==
    /\ recovered' = MemTableFromWal(mt_wal)
    /\ UNCHANGED <<oracle_vars, db_vars, txn, inflight, versions, nwrites, reopens,
                   mt_data, mt_wal, mt_panic, rec_vars, err_vars, ls_vars, dec_vars>>

\* The keys of a two-edit batch.
BatchKeys == {HotKey, HotKey + 1}

\* Records of every type inserted into one mem_table.rs MemTable, batches put,
\* and memtables constructed from the WAL.
NextRecover ==
    \/ \E rt \in RecordTypes, v \in DirectValues : MtInsert(rt, HotKey, 0, v)
    \/ \E ks \in SUBSET BatchKeys, ts \in DirectTimestamps, v \in DirectValues :
            MtPutBatch(ks, ts, v)
    \/ MtNew
    \/ FromWal

SpecRecover == Init /\ [][NextRecover]_vars

\* Full records inserted and batches put into one mem_table.rs MemTable, and
\* the memtable constructed again from its WAL.
NextRoundTrip ==
    \/ \E k \in Keys, ts \in DirectTimestamps, v \in DirectValues : MtInsert(Full, k, ts, v)
    \/ \E ks \in SUBSET Keys, ts \in DirectTimestamps, v \in DirectValues : MtPutBatch(ks, ts, v)
    \/ MtNew

SpecRoundTrip == Init /\ [][NextRoundTrip]_vars

\* ================================================================ claims
\* The newest version of k at or before ts among a set of versions.
NewestVersion(vs, k, ts) ==
    LET c == {e \in vs : e.key = k /\ e.ts <= ts}
    IN  IF c = {} THEN None ELSE Some(CHOOSE e \in c : \A o \in c : o.ts <= e.ts)

\* What a read of k at ts is to return: the value of that version, None when it
\* is a tombstone or there is none.
VisibleValue(vs, k, ts) ==
    IF IsSome(NewestVersion(vs, k, ts)) THEN Unwrap(NewestVersion(vs, k, ts)).value ELSE None

\* The versions readable from the tiers of a database.
BatchEntries(b) ==
    {[key |-> i.key, ts |-> i.ts, value |-> b.values[i.offset + 1]] : i \in b.index}
TierEntries(d) ==
    UNION {d.mutable[s] : s \in Shards}
    \cup UNION {BatchEntries(d.immutable[j]) : j \in 1..Len(d.immutable)}

\* The (key, ts, value) of every record of every WAL file.
FileEntries(file) ==
    {[key |-> file[i].key, ts |-> file[i].ts, value |-> file[i].value] : i \in 1..Len(file)}
WalEntries(files) == UNION {FileEntries(files[f]) : f \in 1..Len(files)}

\* commit() has returned, with Ok or with WriteConflict.
Returned(t) == txn[t].pc \in {"ok", "conflict"}
\* Two transactions of one Db that share a read timestamp.
SameSnapshot(t0, t1) ==
    /\ t0 # t1
    /\ txn[t0].pc # "idle" /\ txn[t1].pc # "idle"
    /\ txn[t0].epoch = txn[t1].epoch
    /\ txn[t0].read_at = txn[t1].read_at

\* C1: if two transactions share a read timestamp and their write-sets
\* intersect, at most one commit succeeds, and the other returns WriteConflict
\* naming at least one key of the intersection.
C1_AtMostOneCommits ==
    \A t0, t1 \in Txns :
        (/\ SameSnapshot(t0, t1)
         /\ WriteSet(txn[t0].local) \cap WriteSet(txn[t1].local) # {}
         /\ txn[t0].pc = "ok"
         /\ Returned(t1))
        => /\ txn[t1].pc = "conflict"
           /\ txn[t1].conflict \cap WriteSet(txn[t0].local) \cap WriteSet(txn[t1].local) # {}

\* No transaction other than t0 and t1 has committed a key of theirs.
NoThirdWriter(t0, t1) ==
    \A u \in Txns \ {t0, t1} :
        (txn[u].pc \in {"writing", "ok"} /\ txn[u].epoch = txn[t0].epoch)
        => WriteSet(txn[u].local) \cap (WriteSet(txn[t0].local) \cup WriteSet(txn[t1].local)) = {}

\* C2: two transactions with the same read_at and disjoint write-sets never get
\* WriteConflict (no third committer writing a key of theirs), in any order of
\* their commits, and whatever a read of an open transaction finds is a written
\* version stamped at or before its read_at.
C2_DisjointBothCommit ==
    /\ \A t0, t1 \in Txns :
        (/\ SameSnapshot(t0, t1)
         /\ WriteSet(txn[t0].local) \cap WriteSet(txn[t1].local) = {}
         /\ NoThirdWriter(t0, t1))
        => txn[t0].pc # "conflict" /\ txn[t1].pc # "conflict"
    /\ \A t \in Txns, k \in Keys :
        (txn[t].pc = "open" /\ IsSome(DbFind(Cur, k, txn[t].read_at)))
        => /\ Unwrap(DbFind(Cur, k, txn[t].read_at)).ts <= txn[t].read_at
           /\ Unwrap(DbFind(Cur, k, txn[t].read_at)) \in versions

C2_Witness ==
    \E t0, t1 \in Txns :
        /\ SameSnapshot(t0, t1)
        /\ WriteSet(txn[t0].local) # {} /\ WriteSet(txn[t1].local) # {}
        /\ WriteSet(txn[t0].local) \cap WriteSet(txn[t1].local) = {}
        /\ txn[t0].pc = "ok" /\ txn[t1].pc = "ok"
        /\ Unwrap(txn[t0].write_at) > Unwrap(txn[t1].write_at)
        /\ \A k \in WriteSet(txn[t0].local) \cup WriteSet(txn[t1].local) :
              IsSome(DbFind(Cur, k, now))

\* C3: once the writes made have returned, get(key, ts) returns the value of the
\* version of key with the greatest ts' <= ts among all versions ever written,
\* and None when that version is a tombstone or there is none.
C3_GetNewestVisible ==
    Quiescent =>
        \A k \in Keys, ts \in Timestamps : DbGet(Cur, k, ts) = VisibleValue(versions, k, ts)

\* C4: after the database is reopened, for every version a commit wrote,
\* get(key, ts) at any ts >= write_at returns the newest committed value at ts.
C4_Durable ==
    [][reopens' # reopens =>
        \A e \in versions : \A ts \in Timestamps :
            ts >= e.ts => DbGet(Cur', e.key, ts) = VisibleValue(versions, e.key, ts)]_vars

\* C5: every version readable from a mutable memtable or an immutable batch has
\* a record with the same key, timestamp and value in some WAL file.
C5_WalBeforeVisible == TierEntries(Cur) \subseteq WalEntries(wal_files)

\* The engine scan of an open transaction, for the keys it has not written.
SnapshotRange(d, t) ==
    LET Unwritten(e) == txn[t].local[e.key] = None
    IN  SelectSeq(DbRange(d, None, None, txn[t].read_at), Unwritten)

\* C6: between new_txn and commit, for a key the transaction has not written
\* locally, every get and every range returns the same result, whatever other
\* transactions do in between.
C6_StableSnapshot ==
    [][\A t \in Txns :
          (txn[t].pc = "open" /\ txn'[t].pc = "open" /\ txn'[t].local = txn[t].local)
          => /\ \A k \in Keys :
                    txn[t].local[k] = None
                    => DbGet(Cur', k, txn[t].read_at) = DbGet(Cur, k, txn[t].read_at)
             /\ SnapshotRange(Cur', t) = SnapshotRange(Cur, t)]_vars

\* C7: a transaction created after a commit returned Ok has read_at >= that
\* commit's write_at, and its get of a key of that commit returns the committed
\* value unless a commit with a later timestamp wrote the key.
C7_SeesEarlierCommits ==
    \A t2 \in Txns, t1 \in Txns, k \in Keys :
        (txn[t2].pc = "open" /\ t1 \in txn[t2].after /\ k \in WriteSet(txn[t1].local))
        => /\ txn[t2].read_at >= Unwrap(txn[t1].write_at)
           /\ \/ DbGet(Cur, k, txn[t2].read_at) = Unwrap(txn[t1].local[k])
              \/ \E e \in versions :
                    /\ e.key = k
                    /\ e.ts > Unwrap(txn[t1].write_at)
                    /\ e.ts <= txn[t2].read_at

\* C8: after set(k, v) in a transaction its get(k) returns v, and after
\* remove(k) it returns absence, whatever the engine holds for k.
C8_LocalFirst ==
    \A t \in Txns, k \in Keys :
        (txn[t].pc = "open" /\ IsSome(txn[t].local[k]))
        => TxnGet(t, k) = Unwrap(txn[t].local[k])

\* The bounds a scan may be given.
Bound == {None} \cup {Some(k) : k \in Keys}

\* C9: a range scan emits each key at most once, in strictly ascending key
\* order, and the version emitted for a key is the newest version at or before
\* ts across all mutable shards and all immutable batches.
C9_RangeNewestAcrossTiers ==
    \A lower \in Bound, upper \in Bound, ts \in Timestamps :
        LET r == DbRange(Cur, lower, upper, ts)
        IN  /\ \A i \in 1..Len(r), j \in 1..Len(r) : i < j => r[i].key < r[j].key
            /\ \A i \in 1..Len(r) :
                  r[i].ts = Unwrap(NewestVersion(TierEntries(Cur), r[i].key, ts)).ts

\* C10: range(lower, upper, ts) emits exactly the keys K with lower <= K <= upper
\* (a None bound open-ended) that have a version at or before ts in some tier.
C10_RangeBoundsInclusive ==
    \A lower \in Bound, upper \in Bound, ts \in Timestamps :
        LET r == DbRange(Cur, lower, upper, ts)
        IN  {r[i].key : i \in 1..Len(r)}
            = {k \in Keys :
                  /\ lower = None \/ Unwrap(lower) <= k
                  /\ upper = None \/ k <= Unwrap(upper)
                  /\ \E e \in TierEntries(Cur) : e.key = k /\ e.ts <= ts}

\* A scan with both bounds given that emits both bounds, from a mutable shard
\* and from a batch, while keys below and above the bounds have versions too.
C10_Witness ==
    /\ Len(immutable) > 0
    /\ \E lo \in Keys, hi \in Keys :
        /\ lo < hi
        /\ LET r == DbRange(Cur, Some(lo), Some(hi), MaxDirectTs)
           IN  /\ Len(r) >= 2
               /\ r[1].key = lo
               /\ r[Len(r)].key = hi
        /\ \E e \in TierEntries(Cur) : e.key > hi
        /\ \E e \in TierEntries(Cur) : e.key = hi /\ e \notin UNION {mutable_shards[s] : s \in Shards}

\* C11: Transaction.range emits, for a key of the bounds present in local, the
\* local value; for a key only in the engine, the value of its newest version at
\* or before read_at; and nothing else.
C11_TxnRangeMergesLocal ==
    \A t \in Txns, lower \in Bound, upper \in Bound :
        txn[t].pc = "open"
        => LET r == TxnRange(t, lower, upper)
               snapshot(k) == NewestVersion(TierEntries(Cur), k, txn[t].read_at)
           IN  /\ {r[i].key : i \in 1..Len(r)}
                  = {k \in Keys : /\ lower = None \/ Unwrap(lower) <= k
                                  /\ upper = None \/ k <= Unwrap(upper)
                                  /\ IsSome(txn[t].local[k]) \/ IsSome(snapshot(k))}
               /\ \A i \in 1..Len(r) :
                     r[i].value = IF IsSome(txn[t].local[r[i].key])
                                  THEN Unwrap(txn[t].local[r[i].key])
                                  ELSE Unwrap(snapshot(r[i].key)).value

\* The edit a committing transaction submits as the i-th of its batch.
EditOf(t, i) ==
    LET k == Edits(txn[t].local)[i]
    IN  [key |-> k, ts |-> Unwrap(txn[t].write_at), value |-> Unwrap(txn[t].local[k])]

\* C12: when a write is refused by the full WAL and rotates, the new memtable of
\* the shard holds the triggering edit and nothing else, the memtable taken out
\* is the old one without that edit, and the batch then pushed holds exactly the
\* entries of the old memtable.
C12_RotationSplitsEdit ==
    [][\A t \in Txns :
          /\ (txn[t].pc = "writing" /\ inflight[t] = None /\ inflight'[t] # None)
             => LET e == EditOf(t, txn[t].next)
                IN  /\ mutable_shards'[ShardOf(e.key)] = {e}
                    /\ Unwrap(inflight'[t]) = mutable_shards[ShardOf(e.key)]
                    /\ e \notin Unwrap(inflight'[t])
          /\ (inflight[t] # None /\ inflight'[t] = None /\ reopens' = reopens)
             => /\ Len(immutable') = Len(immutable) + 1
                /\ SubSeq(immutable', 1, Len(immutable)) = immutable
                /\ BatchEntries(immutable'[Len(immutable')]) = Unwrap(inflight[t])
                /\ EditOf(t, txn[t].next - 1) \notin BatchEntries(immutable'[Len(immutable')])]_vars

\* A rotation has taken a non-empty memtable out of a shard, and a batch was
\* pushed before.
C12_Witness ==
    /\ Len(immutable) > 0
    /\ \E t \in Txns : inflight[t] # None /\ Unwrap(inflight[t]) # {}

\* The database the same writes leave when max_wal_size is never reached: every
\* version sits in the mutable memtable of its shard and nothing is frozen.
NoRotationDb ==
    [mutable   |-> [s \in Shards |-> {e \in versions : ShardOf(e.key) = s}],
     immutable |-> <<>>,
     files     |-> <<<<>>>>,
     wal       |-> 1]

\* C13: once the writes have returned, every get(key, ts) returns the same with
\* a max_wal_size that rotates memtables as with one that never rotates.
C13_RotationInvisible ==
    Quiescent
    => \A k \in Keys, ts \in Timestamps :
          DbGet(Cur, k, ts) = DbGet(NoRotationDb, k, ts)

\* C14: at every instant, each version written to a shard is in that shard's
\* mutable memtable or in a batch of the immutable deque, also while a rotation
\* is freezing the old memtable.
C14_NoUnreadableWindow ==
    \A e \in versions :
        \E r \in TierEntries(Cur) : r.key = e.key /\ r.ts = e.ts

\* C15: a commit that fails with WriteConflict records nothing in the oracle: a
\* commit is refused only when a committer that passed validation, stamped in
\* its interval, wrote one of its keys.
C15_FailedCommitNotRecorded ==
    [][\A t \in Txns :
          (txn[t].pc = "ticked" /\ txn'[t].pc = "conflict")
          => /\ \A c \in committed_writes' : c.ts # Unwrap(txn[t].write_at)
             /\ \E u \in Txns \ {t} :
                   /\ txn[u].pc \in {"writing", "ok"}
                   /\ IsSome(txn[u].write_at)
                   /\ txn[t].read_at < Unwrap(txn[u].write_at)
                   /\ Unwrap(txn[u].write_at) <= Unwrap(txn[t].write_at)
                   /\ WriteSet(txn[u].local) \cap WriteSet(txn[t].local) # {}]_vars

\* T1 failed with WriteConflict and T2, whose interval holds T1's timestamp and
\* whose write-set meets T1's, passed validation.
C15_Witness ==
    \E t1 \in Txns, t2 \in Txns :
        /\ txn[t1].pc = "conflict"
        /\ txn[t2].pc \in {"writing", "ok"}
        /\ WriteSet(txn[t1].local) \cap WriteSet(txn[t2].local) # {}
        /\ txn[t2].read_at < Unwrap(txn[t1].write_at)
        /\ Unwrap(txn[t1].write_at) < Unwrap(txn[t2].write_at)

\* C16: a commit that returned WriteConflict has no storage effect: no WAL file,
\* memtable or batch holds a record stamped with its write timestamp, so every
\* read returns what it would without the transaction.
C16_ConflictWritesNothing ==
    \A t \in Txns :
        txn[t].pc = "conflict"
        => \A e \in TierEntries(Cur) \cup WalEntries(wal_files)
                    \cup UNION {Unwrap(inflight[w]) : w \in {x \in Writers : inflight[x] # None}}
                    \cup versions :
              e.ts # Unwrap(txn[t].write_at)

\* A transaction failed with WriteConflict after another one wrote its batch.
C16_Witness ==
    \E t \in Txns, u \in Txns :
        /\ txn[t].pc = "conflict"
        /\ txn[u].pc = "ok"
        /\ \E e \in TierEntries(Cur) : e.ts = Unwrap(txn[u].write_at)
        /\ Unwrap(txn[u].write_at) < Unwrap(txn[t].write_at)

\* C17: write_commit succeeds exactly when no recorded commit with a timestamp
\* ts, read_at < ts <= write_at, shares a key with the write-set; a recorded
\* commit at or before read_at never makes it fail, even on the same key.
C17_ConflictInterval ==
    [][\A t \in Txns :
          (txn[t].pc = "ticked" /\ txn'[t].pc # "ticked")
          => (txn'[t].pc = "writing"
              <=> ~ \E c \in committed_writes :
                      /\ txn[t].read_at < c.ts
                      /\ c.ts <= Unwrap(txn[t].write_at)
                      /\ c.keys \cap WriteSet(txn[t].local) # {})]_vars

\* A transaction passed validation although a commit at or before its read_at
\* is recorded on one of its keys.
C17_Witness ==
    \E t \in Txns :
        /\ txn[t].pc \in {"writing", "ok"}
        /\ \E c \in committed_writes :
              /\ c.ts <= txn[t].read_at
              /\ c.ts > 0
              /\ c.keys \cap WriteSet(txn[t].local) # {}

\* The record type the framing of a batch gives to the i-th of n records.
Framed(i, n) ==
    IF n = 1 THEN Full ELSE IF i = 1 THEN First ELSE IF i = n THEN Last ELSE Middle

\* C18: a batch of n edits is written as nothing for n = 0, one Full record for
\* n = 1, and for n >= 2 one First, n - 2 Middle and one Last, in the order of
\* the edits and all with one timestamp.
C18_BatchFraming ==
    [][LET n == Len(mt_wal') - Len(mt_wal)
       IN  \A i \in 1..n :
              /\ mt_wal'[Len(mt_wal) + i].record_type = Framed(i, n)
              /\ mt_wal'[Len(mt_wal) + i].ts = mt_wal'[Len(mt_wal) + 1].ts]_vars

\* The records of the WAL files read in file-generation order.
RECURSIVE WalStream(_)
WalStream(files) ==
    IF files = <<>> THEN <<>> ELSE Head(files) \o WalStream(Tail(files))

\* C19: in the WAL read in file-generation order a First is followed by the
\* Middle records of its batch and then its Last, with no record of another
\* batch or single write in between (a batch still being written may end the
\* stream).
C19_BatchContiguous ==
    LET s == WalStream(wal_files)
    IN  \A i \in 1..Len(s) :
           /\ s[i].record_type \in {First, Middle}
              => \/ i = Len(s)
                 \/ s[i + 1].record_type \in {Middle, Last} /\ s[i + 1].ts = s[i].ts
           /\ s[i].record_type \in {Middle, Last}
              => /\ i > 1
                 /\ s[i - 1].record_type \in {First, Middle}
                 /\ s[i - 1].ts = s[i].ts

\* The first record of a WAL file that breaks the batch protocol, with the
\* index at which the batch open at that point began (0: none): a Middle or
\* Last with no open batch, or a First while a batch is open.  at = 0: no break.
RECURSIVE FirstBreak(_, _, _)
FirstBreak(file, i, open) ==
    IF i > Len(file) THEN [at |-> 0, open |-> 0]
    ELSE IF file[i].record_type = Full THEN FirstBreak(file, i + 1, open)
    ELSE IF file[i].record_type = First
         THEN IF open # 0 THEN [at |-> i, open |-> open] ELSE FirstBreak(file, i + 1, i)
    ELSE IF open = 0 THEN [at |-> i, open |-> 0]
    ELSE FirstBreak(file, i + 1, IF file[i].record_type = Last THEN 0 ELSE open)

\* The records of the broken batch of a file: those of the batch open at the
\* break, and the record that breaks the protocol.
BrokenRecords(file) ==
    LET b == FirstBreak(file, 1, 0)
    IN  IF b.at = 0 THEN {}
        ELSE {file[i] : i \in (IF b.open = 0 THEN b.at ELSE b.open)..b.at}

\* C20: when Db::new recovers a WAL file holding a broken batch, none of the
\* records of the broken batch becomes readable.
C20_BrokenBatchRejected ==
    [][reopens' # reopens
       => \A f \in 1..Len(wal_files) : \A r \in BrokenRecords(wal_files[f]) :
             ~ \E e \in TierEntries(Cur') : e.key = r.key /\ e.ts = r.ts]_vars

\* C21: every record replayed by Db recovery is written again with record type
\* Full, so the WAL files written during recovery hold only Full records.
C21_ReplayedAsFull ==
    [][reopens' # reopens
       => \A f \in (Len(wal_files) + 1)..Len(wal_files') :
             \A i \in 1..Len(wal_files'[f]) : wal_files'[f][i].record_type = Full]_vars

\* C22: when the WAL refuses an append for size, the write rotates to a fresh
\* WAL file and appends the same record to it: after the write the fresh file
\* holds exactly the record of the edit the shard's new memtable holds.
C22_RotationRetriesAppend ==
    [][(wal' # wal /\ reopens' = reopens)
       => \E s \in Shards :
             /\ Len(wal_files'[wal']) = 1
             /\ FileEntries(wal_files'[wal']) = mutable_shards'[s]]_vars

C25_AtomicVisibility ==
    \A t \in Txns :
        IsSome(txn[t].write_at)
        => LET w == Unwrap(txn[t].write_at)
               seen(k) == /\ IsSome(DbFind(Cur, k, w))
                          /\ Unwrap(DbFind(Cur, k, w)).ts = w
           IN  \/ \A k \in WriteSet(txn[t].local) : seen(k)
               \/ \A k \in WriteSet(txn[t].local) : ~seen(k)

\* Writer w1 swapped a memtable out of a shard before writer w2 swapped the next
\* one out of the same shard, and neither is pushed yet: the memtable w2 holds
\* began as the edit that made w1 rotate.
SwappedBefore(w1, w2) ==
    /\ w1 # w2
    /\ inflight[w1] # None
    /\ inflight[w2] # None
    /\ EditOf(w1, txn[w1].next - 1) \in Unwrap(inflight[w2])

\* C26: the batch of a memtable swapped out earlier is appended to the
\* immutable deque before the batch of one swapped out later from the same
\* shard.
C26_DequeInFreezeOrder ==
    [][\A w1 \in Txns, w2 \in Txns :
          SwappedBefore(w1, w2) => inflight'[w2] # None]_vars

\* Transaction t has called read_commit and has yet to call write_commit.
AboutToValidate(t) == txn[t].pc \in {"released", "ticked"}

\* C27: garbage collection of committed_writes never removes an entry whose
\* timestamp lies in (read_at, write_at] of a transaction that has released its
\* read timestamp and is still about to call write_commit.
C27_GcKeepsValidationWindow ==
    [][\A t \in Txns : AboutToValidate(t)
          => \A c \in committed_writes :
                (/\ txn[t].read_at < c.ts
                 /\ IsSome(txn[t].write_at) => c.ts <= Unwrap(txn[t].write_at))
                => c \in committed_writes']_vars

\* The versions of key k in memtable m that a read at ts may see.
AtOrBefore(m, k, ts) == {e \in m : e.key = k /\ e.ts <= ts}

\* C28: MemTable::get(key, ts) returns the value of the newest version of key
\* with ts' <= ts (Some(None) when that version is a tombstone) and None when
\* key has no such version; it never returns a version of another key.
C28_MemGetNewestOfKey ==
    \A s \in Shards, k \in Keys, ts \in Timestamps :
        LET m == mutable_shards[s]
            c == AtOrBefore(m, k, ts)
        IN  IF c = {} THEN MemGet(m, k, ts) = None
            ELSE \E e \in c : /\ \A o \in c : o.ts <= e.ts
                              /\ MemGet(m, k, ts) = Some(e.value)

\* A memtable holds a tombstone of key 1 at ts 1 and a value of key 2 at ts 0:
\* a read of key 1 at ts 0 meets key 2's version first and returns None, a read
\* at ts 1 returns the tombstone, a read of key 2 returns its value.
C28_Witness ==
    \E s \in Shards :
        /\ mutable_shards[s] = {[key |-> 1, ts |-> 1, value |-> None],
                                [key |-> 2, ts |-> 0, value |-> Some(1)]}
        /\ MemGet(mutable_shards[s], 1, 0) = None
        /\ MemGet(mutable_shards[s], 1, 1) = Some(None)
        /\ MemGet(mutable_shards[s], 2, 1) = Some(Some(1))

\* The positions of stream p whose record recovery applies: the Full records,
\* and the records of a batch whose Last has been read.
Applied(p) ==
    {i \in 1..Len(p) : \/ p[i].record_type = Full
                       \/ \E j \in i..Len(p) : p[j].record_type = Last}

\* The memtable data holds an entry for every applied record of p and nothing
\* that no applied record of p wrote.
AppliedOnly(data, p) ==
    /\ \A i \in Applied(p) : \E e \in data : e.key = p[i].key /\ e.ts = p[i].ts
    /\ \A e \in data : \E i \in Applied(p) :
            e.key = p[i].key /\ e.ts = p[i].ts /\ e.value = p[i].value

\* C29: MemTable::recover (both memtables) applies a batch all-or-nothing: Full
\* records are inserted at once, the records from First through Middle only
\* when the matching Last is read, and a batch still open at the end of the
\* stream contributes no entry.
C29_RecoverAllOrNothing ==
    /\ ~MemTableRecover(RecoverStart, mt_wal).panic
          => AppliedOnly(MemTableRecover(RecoverStart, mt_wal).data, mt_wal)
    /\ ~MtRecover(RecoverStart, mt_wal).panic
          => AppliedOnly(MtRecover(RecoverStart, mt_wal).data, mt_wal)
    /\ [data |-> EmptyMemTable, panic |-> FALSE] # recovered
          => \E n \in 0..Len(mt_wal) :
                /\ recovered = MemTableFromWal(SubSeq(mt_wal, 1, n))
                /\ ~recovered.panic => AppliedOnly(recovered.data, SubSeq(mt_wal, 1, n))

\* The WAL holds a Full record of key 2, a closed batch of two records and then
\* a First with no Last that would delete key 1 at ts 0; the memtable made from
\* it holds the Full and the batched entries and not the tombstone.
C29_Witness ==
    /\ Len(mt_wal) = 4
    /\ mt_wal[1] = Record(Full, HotKey + 1, 1, Some(1))
    /\ mt_wal[2].record_type = First /\ mt_wal[3].record_type = Last
    /\ mt_wal[4] = Record(First, HotKey, 0, None)
    /\ recovered = [data |-> {[key |-> HotKey, ts |-> 0, value |-> Some(1)],
                              [key |-> HotKey + 1, ts |-> 1, value |-> Some(1)]},
                    panic |-> FALSE]
    /\ ~mt_panic
    /\ mt_data = recovered.data

\* C30: a MemTable constructed from the WAL that insert and put_batch calls
\* wrote (MemTable::new, which runs recover) is constructed without panic and
\* answers get(key, ts) as the original memtable does, for every key and ts.
C30_RecoverRoundTrip ==
    [][mt_wal' = mt_wal
       => /\ ~mt_panic'
          /\ \A k \in Keys, ts \in Timestamps :
                MtGet(mt_data', k, ts) = MtGet(mt_data, k, ts)]_vars

\* The batch b is a faithful freeze of memtable m: one row and one index entry
\* per entry of m, the offsets distinct and in memtable order, and find on the
\* batch answering as get on the memtable.
FrozenAs(b, m) ==
    /\ Len(b.keys) = Cardinality(m)
    /\ Len(b.values) = Cardinality(m)
    /\ Cardinality(b.index) = Cardinality(m)
    /\ \A e \in m : \E i \in b.index : i.key = e.key /\ i.ts = e.ts
    /\ \A i \in b.index : i.offset \in 0..(Cardinality(m) - 1)
    /\ \A i \in b.index, j \in b.index : IKLess(i, j) => i.offset < j.offset
    /\ \A k \in Keys, ts \in Timestamps :
          IF IsSome(BatchFind(b, k, ts))
          THEN MemGet(m, k, ts) = Some(Unwrap(BatchFind(b, k, ts)).value)
          ELSE MemGet(m, k, ts) = None

\* C31: the batch that freeze makes of a memtable indexes each (key, ts) at a
\* distinct row offset in memtable order, has as many rows as the memtable has
\* entries, and find on it returns what get on the memtable returns.
C31_FreezePreservesLookups ==
    [][\A w \in Writers :
          (inflight[w] # None /\ inflight'[w] = None)
          => /\ Len(immutable') = Len(immutable) + 1
             /\ FrozenAs(immutable'[Len(immutable')], Unwrap(inflight[w]))]_vars

\* A batch of two rows with a tombstone in its second row has been pushed, and
\* find on it returns that tombstone.
C31_Witness ==
    \E j \in 1..Len(immutable) :
        /\ Len(immutable[j].keys) = 2
        /\ immutable[j].values[2] = None
        /\ \E k \in Keys, ts \in Timestamps :
              /\ IsSome(BatchFind(immutable[j], k, ts))
              /\ Unwrap(BatchFind(immutable[j], k, ts)).value = None
              /\ \E i \in immutable[j].index : i.key = k /\ i.offset = 1

\* C32: closing and reopening the database again, with no write in between,
\* gives for every key and ts the get result the first reopen gave.
C32_ReopenIdempotent ==
    [][reopens' # reopens
       => \A k \in Keys, ts \in Timestamps :
             DbGet(DbNew(wal_files'), k, ts) = DbGet(Cur', k, ts)]_vars

C34_UniqueWriteAt ==
    /\ \A t \in Txns : IsSome(txn[t].write_at) => Unwrap(txn[t].write_at) > txn[t].read_at
    /\ \A t \in Txns, u \in Txns :
          (t # u /\ IsSome(txn[t].write_at) /\ IsSome(txn[u].write_at))
          => txn[t].write_at # txn[u].write_at

\* C35: a Db::write whose WAL append fails with an error other than
\* MaxSizeExceeded leaves the memtables, the active WAL and the immutable deque
\* as they were, and no get reads the edit afterwards.
C35_FailedAppendChangesNothing ==
    [][io_errors' # io_errors
       => /\ mutable_shards' = mutable_shards
          /\ wal' = wal
          /\ immutable' = immutable
          /\ inflight' = inflight
          /\ \A k \in Keys, ts \in Timestamps : DbGet(Cur', k, ts) = DbGet(Cur, k, ts)]_vars

\* A write failed after the database had a frozen batch and a non-empty
\* memtable, and a key has no readable version.
C35_Witness ==
    /\ io_errors > 0
    /\ immutable # <<>>
    /\ \E s \in Shards : mutable_shards[s] # EmptyMemTable
    /\ \E k \in Keys : \A ts \in Timestamps : DbFind(Cur, k, ts) = None

\* Every item of every table of gens, in the order of gens.
RECURSIVE AllItems(_, _)
AllItems(tables, g) ==
    IF g > Len(tables) THEN <<>>
    ELSE [i \in 1..tables[g].size |-> <<g, i>>] \o AllItems(tables, g + 1)

\* C36: LevelStream yields every item of every table of gens exactly once, the
\* items of one table before those of the next, and then ends, for every
\* schedule of Pending results of the table-open futures; no table is skipped
\* and no completed future is polled again.
C36_YieldsEveryTableInOrder ==
    /\ ls.phase # "panicked"
    /\ ls.phase = "ended" => ls.out = AllItems(ls_tables, 1)

\* C37: Record::decode never panics: on a record whose type byte is none of
\* 0 (Full), 1 (First), 2 (Middle), 3 (Last) it returns a decode error.
C37_DecodeNeverPanics ==
    /\ dec_out.tag # "panic"
    /\ (dec_out.tag # "none" /\ Len(dec_in) >= 1 /\ dec_in[1] \notin {0, 1, 2, 3})
          => dec_out.tag = "err"
====
